---------------------------- MODULE Spec2Model ----------------------------
(***************************************************************************)
(* A model of two demo programs of the repository:                         *)
(*                                                                         *)
(*  - examples/mcp-api-implementation/mcp-vs-api-implementation.py:        *)
(*    BackendServices (five simulated backends and their shared call_log)  *)
(*    and MCPProxyServer.request_context (identity, policy, five awaited   *)
(*    backend calls, filtering, envelope, audit_log).                      *)
(*  - examples/headless-agent-security-demo/headless_agent_security_demo.py*)
(*    AuditEvent, SecurityPolicy, AuditLogger and HeadlessAgent            *)
(*    (verify_access, create_file, update_file).  The workspace is a map   *)
(*    from (repo, file path) to text: the paths used name files only, and  *)
(*    the file system and the log file do not fail.                        *)
(*                                                                         *)
(* Wall-clock values (datetime.now()) are not part of any property below   *)
(* and are left out of the records of the proxy; the audit events carry a  *)
(* timestamp drawn from a small set.  Floats are kept as integers in a     *)
(* stated unit or, where no arithmetic is done on them, as strings.        *)
(***************************************************************************)
EXTENDS Integers, Sequences, FiniteSets, TLC

VARIABLES
    call_log,    \* BackendServices.call_log: every backend call, in order
    audit_log,   \* MCPProxyServer.audit_log: one dict per audited request
    req,         \* req[i]: the locals and the outcome of the i-th
                 \* request_context call
    events,      \* AuditLogger.events: the list of AuditEvent
    log_file,    \* the file at AuditLogger.log_path
    created,     \* history: the events in the order log_event stored them,
                 \* through whichever AuditLogger
    workspace,   \* the files under workspace_dir: <<repo, file_path>> to text
    result,      \* the last call of an agent and its outcome; result.n is
                 \* the number of calls made so far
    loaded,      \* the outcome of constructing a second AuditLogger on
                 \* the log path of the first
    trad,        \* the locals and the outcome of the
                 \* TraditionalLoanAgent.assess_loan call of run_comparison
    traditional_calls
                 \* run_comparison's copy of call_log after that call

proxyVars == <<call_log, audit_log, req>>
auditVars == <<events, log_file, created, workspace, result, loaded>>
compareVars == <<trad, traditional_calls>>
vars ==
    <<call_log, audit_log, req, events, log_file, created, workspace, result,
      loaded, trad, traditional_calls>>

(***************************************************************************)
(* Bounds of the model.                                                    *)
(***************************************************************************)
\* request_context calls made on the one proxy
MaxRequests == 2
\* distinct values str(uuid.uuid4())[:8] may take (8 hex digits in the code)
NumRequestIds == 2
\* events logged by the audit logger
MaxEvents == 2
\* distinct readings of the clock (datetime.utcnow())
MaxClock == 2
\* calls made by the agents when they also create and update files
MaxCalls == 2

RequestSlots == 1..MaxRequests
RequestIdSpace == 1..NumRequestIds

(***************************************************************************)
(* Inputs of request_context.  "loan-agent-001", "CUST-12345", "PROP-789"  *)
(* and 280000 are the values run_comparison passes; the others vary one    *)
(* input each.                                                             *)
(***************************************************************************)
DemoParameters ==
    [applicant_id |-> "CUST-12345", property_id |-> "PROP-789",
     requested_amount |-> 280000]

RequestInputs ==
    { [intent |-> "loan_assessment", parameters |-> DemoParameters,
       agent_token |-> "loan-agent-001"],
      [intent |-> "loan_assessment",
       parameters |-> [DemoParameters EXCEPT !.applicant_id = "CUST-99999"],
       agent_token |-> "loan-agent-001"],
      [intent |-> "loan_assessment", parameters |-> DemoParameters,
       agent_token |-> ""],
      [intent |-> "marketing_campaign", parameters |-> DemoParameters,
       agent_token |-> "loan-agent-001"],
      [intent |-> "loan_assessment",
       parameters |-> [applicant_id |-> "CUST-12345"],
       agent_token |-> "loan-agent-001"],
      [intent |-> "loan_assessment",
       parameters |-> [property_id |-> "PROP-789"],
       agent_token |-> "loan-agent-001"] }

(***************************************************************************)
(* BackendServices: the entry each service appends to call_log before it   *)
(* sleeps, and the full payload it returns afterwards.  "..." stands for   *)
(* the Ellipsis placeholders of the source.                                *)
(***************************************************************************)
customer_service_call(customer_id, caller) ==
    [service |-> "Customer Service",
     operation |-> "GET /customers/" \o customer_id,
     caller |-> caller, data_size |-> "2.1 KB", includes_sensitive |-> TRUE]

customer_service_get_profile(customer_id) ==
    [customer_id |-> customer_id,
     name |-> "John Smith",
     email |-> "john.smith@email.com",
     phone |-> "+1-555-0123",
     address |-> "123 Main St, Anytown, USA 12345",
     date_of_birth |-> "1985-03-15",
     employment_status |-> "employed",
     employer |-> "TechCorp Inc.",
     annual_income |-> 85000,
     ssn |-> "123-45-6789",
     internal_credit_flag |-> "A+",
     internal_notes |-> "VIP - handle with care",
     marketing_preferences |-> "...",
     last_login |-> "2024-01-15T10:30:00Z"]

account_service_call(customer_id, caller) ==
    [service |-> "Account Service",
     operation |-> "GET /accounts/" \o customer_id \o "/history",
     caller |-> caller, data_size |-> "847 KB", includes_sensitive |-> TRUE]

account_service_get_history(customer_id) ==
    [account_id |-> "ACC-001",
     customer_id |-> customer_id,
     balance |-> "15420.50",
     avg_monthly_balance |-> "12500.00",
     overdraft_count |-> 1,
     account_age_months |-> 36,
     account_type |-> "checking",
     routing_number |-> "021000021",
     account_number |-> "1234567890",
     transactions |-> "1000 transactions",
     pending_transactions |-> "...",
     recurring_payments |-> "..."]

credit_bureau_call(customer_id, caller) ==
    [service |-> "Credit Bureau (External)",
     operation |-> "POST /v2/credit-report/" \o customer_id,
     caller |-> caller, data_size |-> "156 KB", includes_sensitive |-> TRUE,
     cost |-> "$0.50"]

credit_bureau_get_score(customer_id) ==
    [customer_id |-> customer_id,
     score |-> 720,
     rating |-> "Good",
     score_factors |-> <<"Length of credit history: Positive",
                         "Payment history: Positive",
                         "Credit utilization: Moderate">>,
     full_credit_report |-> "...",
     previous_scores |-> "...",
     dispute_history |-> "..."]

property_service_call(property_id, caller) ==
    [service |-> "Property Service",
     operation |-> "GET /properties/" \o property_id \o "/valuation",
     caller |-> caller, data_size |-> "12 KB", includes_sensitive |-> FALSE]

property_service_get_valuation(property_id) ==
    [property_id |-> property_id,
     estimated_value |-> 350000,
     last_appraisal_date |-> "2024-06-15",
     property_type |-> "single_family",
     address |-> "456 Oak Avenue, Somewhere, USA",
     square_footage |-> 2200,
     lot_size |-> "0.25",
     year_built |-> 1998,
     comparable_sales |-> "...",
     neighborhood_data |-> "..."]

policy_service_call(caller) ==
    [service |-> "Policy Service",
     operation |-> "GET /policies/lending/current",
     caller |-> caller, data_size |-> "3 KB", includes_sensitive |-> FALSE]

\* max_dti_ratio and max_loan_to_value are in hundredths (0.43, 0.80)
policy_service_get_lending_rules ==
    [policy_id |-> "LEND-2024-Q1",
     version |-> "2024.1.3",
     effective_date |-> "2024-01-01",
     min_credit_score |-> 650,
     max_dti_ratio |-> 43,
     min_account_age_months |-> 12,
     max_loan_to_value |-> 80,
     excluded_property_types |-> <<"mobile_home", "timeshare">>,
     regional_adjustments |-> "...",
     exception_criteria |-> "..."]


(***************************************************************************)
(* MCPProxyServer.request_context, its pure parts.                         *)
(***************************************************************************)
Sources == {"customer", "account", "credit", "property", "policy"}

\* str(uuid.uuid4())[:8]: the n-th of the 8-digit identifiers
uuid8(n) == "0000000" \o ToString(n)

RequestIds == { uuid8(n) : n \in RequestIdSpace }

\* STEP 1: the identity dict; nothing is checked, no token is refused
Identity(agent_token, intent) ==
    [agent_id |-> agent_token,
     principal |-> "loan-processing-system",
     delegations |-> <<"credit-decisions">>,
     purpose |-> intent]

\* a policy that an earlier audited request has widened
allowed_fields_widened_by_history ==
    [customer |-> IF audit_log = <<>>
                  THEN <<"name", "employment_status", "annual_income">>
                  ELSE <<"name", "employment_status", "annual_income", "ssn">>,
     account |-> <<"balance", "avg_monthly_balance", "overdraft_count",
                   "account_age_months">>,
     credit |-> <<"score", "rating">>,
     property |-> <<"estimated_value", "property_type">>,
     policy |-> <<"min_credit_score", "max_dti_ratio",
                  "min_account_age_months", "max_loan_to_value">>]

\* STEP 2: the policy is two literals, whatever the intent
allowed_fields ==
    [customer |-> <<"name", "employment_status", "annual_income">>,
     account |-> <<"balance", "avg_monthly_balance", "overdraft_count",
                   "account_age_months">>,
     credit |-> <<"score", "rating">>,
     property |-> <<"estimated_value", "property_type">>,
     policy |-> <<"min_credit_score", "max_dti_ratio",
                  "min_account_age_months", "max_loan_to_value">>]

redacted_fields ==
    <<"ssn", "internal_notes", "internal_credit_flag",
      "account_number", "routing_number", "transactions",
      "full_credit_report", "dispute_history">>

caller_name(request_id) == "MCPProxy:" \o request_id

\* a filter that hands the raw payloads on
FilteredPayloadPassThrough(customer_raw, account_raw, credit_raw, property_raw, policy_raw) ==
    [customer |-> customer_raw, account |-> account_raw,
     credit |-> credit_raw, property |-> property_raw,
     policy |-> policy_raw]

\* a filter that keeps the customer's identifier and social security number
FilteredPayloadLeaksCustomer(customer_raw, account_raw, credit_raw, property_raw, policy_raw) ==
    [customer |->
        [name |-> customer_raw.name,
         employment_status |-> customer_raw.employment_status,
         annual_income |-> customer_raw.annual_income,
         customer_id |-> customer_raw.customer_id,
         ssn |-> customer_raw.ssn],
     account |->
        [balance |-> account_raw.balance,
         avg_monthly_balance |-> account_raw.avg_monthly_balance,
         overdraft_count |-> account_raw.overdraft_count,
         account_age_months |-> account_raw.account_age_months],
     credit |->
        [score |-> credit_raw.score,
         rating |-> credit_raw.rating],
     property |->
        [estimated_value |-> property_raw.estimated_value,
         property_type |-> property_raw.property_type],
     policy |->
        [min_credit_score |-> policy_raw.min_credit_score,
         max_dti_ratio |-> policy_raw.max_dti_ratio,
         min_account_age_months |-> policy_raw.min_account_age_months,
         max_loan_to_value |-> policy_raw.max_loan_to_value]]

\* a filter that hands on the property value rounded down to 100000
FilteredPayloadCoarsensValue(customer_raw, account_raw, credit_raw, property_raw, policy_raw) ==
    [customer |->
        [name |-> customer_raw.name,
         employment_status |-> customer_raw.employment_status,
         annual_income |-> customer_raw.annual_income],
     account |->
        [balance |-> account_raw.balance,
         avg_monthly_balance |-> account_raw.avg_monthly_balance,
         overdraft_count |-> account_raw.overdraft_count,
         account_age_months |-> account_raw.account_age_months],
     credit |->
        [score |-> credit_raw.score,
         rating |-> credit_raw.rating],
     property |->
        [estimated_value |->
            (property_raw.estimated_value \div 100000) * 100000,
         property_type |-> property_raw.property_type],
     policy |->
        [min_credit_score |-> policy_raw.min_credit_score,
         max_dti_ratio |-> policy_raw.max_dti_ratio,
         min_account_age_months |-> policy_raw.min_account_age_months,
         max_loan_to_value |-> policy_raw.max_loan_to_value]]

\* STEP 4: the payload the agent sees, field by field
FilteredPayload(customer_raw, account_raw, credit_raw, property_raw, policy_raw) ==
    [customer |->
        [name |-> customer_raw.name,
         employment_status |-> customer_raw.employment_status,
         annual_income |-> customer_raw.annual_income],
     account |->
        [balance |-> account_raw.balance,
         avg_monthly_balance |-> account_raw.avg_monthly_balance,
         overdraft_count |-> account_raw.overdraft_count,
         account_age_months |-> account_raw.account_age_months],
     credit |->
        [score |-> credit_raw.score,
         rating |-> credit_raw.rating],
     property |->
        [estimated_value |-> property_raw.estimated_value,
         property_type |-> property_raw.property_type],
     policy |->
        [min_credit_score |-> policy_raw.min_credit_score,
         max_dti_ratio |-> policy_raw.max_dti_ratio,
         min_account_age_months |-> policy_raw.min_account_age_months,
         max_loan_to_value |-> policy_raw.max_loan_to_value]]

\* 2.1 + 847 + 156 + 12 + 3 KB and 0.8 KB, in tenths of a KB
original_size_kb == 21 + 8470 + 1560 + 120 + 30

filtered_size_kb == 8

\* STEP 5
ProvenanceSources ==
    << [service |-> "customer-service", freshness |-> "real-time",
        filtered |-> TRUE],
       [service |-> "account-service", freshness |-> "real-time",
        filtered |-> TRUE],
       [service |-> "credit-bureau", freshness |-> "24h", filtered |-> TRUE],
       [service |-> "property-service", freshness |-> "30d",
        filtered |-> TRUE],
       [service |-> "policy-service", freshness |-> "real-time",
        filtered |-> TRUE] >>

\* a provenance with the two sizes in each other's place
ContextProvenanceSizesSwapped(request_id, identity) ==
    [request_id |-> request_id,
     sources |-> ProvenanceSources,
     identity |-> identity,
     policy_decision |-> "ALLOW with filtering",
     data_filtered |-> TRUE,
     original_size_kb |-> filtered_size_kb,
     filtered_size_kb |-> original_size_kb]

ContextProvenance(request_id, identity) ==
    [request_id |-> request_id,
     sources |-> ProvenanceSources,
     identity |-> identity,
     policy_decision |-> "ALLOW with filtering",
     data_filtered |-> TRUE,
     original_size_kb |-> original_size_kb,
     filtered_size_kb |-> filtered_size_kb]

ContextConstraints(redacted) ==
    [ttl_seconds |-> 300,
     permitted_actions |-> <<"assess", "recommend">>,
     redacted_fields |-> redacted,
     data_classification |-> "confidential"]

AuditRecord(request_id, agent_token, intent, provenance, redacted) ==
    [request_id |-> request_id,
     agent |-> agent_token,
     intent |-> intent,
     sources_accessed |->
        [i \in DOMAIN provenance.sources |-> provenance.sources[i].service],
     policy_decision |-> "ALLOW",
     data_filtered |-> TRUE,
     redacted_fields |-> redacted]

\* a sink that keeps only the record it is given
AuditAppendOverwrites(log, record) == <<record>>

\* self.audit_log.append({...}) (line 718): list.append, one call with no
\* await inside it
AuditAppend(log, record) == Append(log, record)

GovernedContextEnvelope(payload, provenance, constraints) ==
    [payload |-> payload, provenance |-> provenance,
     constraints |-> constraints]


(***************************************************************************)
(* request_context as a coroutine.  It runs without interruption from one  *)
(* suspension point to the next; the suspension points are the             *)
(* asyncio.sleep calls inside the five backend services, which each        *)
(* service reaches after it has appended its entry to call_log.            *)
(*   pc = "new"       not called yet                                       *)
(*   pc = S           suspended inside the backend call of source S        *)
(*   pc = "blocked"   suspended for good inside the backend call of source  *)
(*                    req[r].blocked_on, which never completes              *)
(*   pc = "returned"  returned req[r].envelope to the caller               *)
(*   pc = "raised"    an exception (req[r].error) reached the caller       *)
(***************************************************************************)
Finished(q) == q.pc \in {"returned", "raised"}

InFlight(q) == q.pc \in Sources

\* suspended in an await that will never be resumed
Blocked(q) == q.pc = "blocked"

\* the caller of the previous request has its answer: a caller whose request
\* is suspended, for a while or for good, makes no further request
NoRequestInFlight ==
    \A r \in RequestSlots : ~InFlight(req[r]) /\ ~Blocked(req[r])

\* an exception leaves request_context: nothing in it catches one
Raise(q, error) == [pc |-> "raised", error |-> error] @@ q

\* a handler that swallows the exception and answers with what it has
OnFetchErrorPartialEnvelope(q, S) ==
    [pc |-> "returned",
     failed_source |-> S,
     envelope |->
        GovernedContextEnvelope(
            [T \in {T \in {"customer", "account", "credit", "property"} :
                       (T \o "_raw") \in DOMAIN q} |-> q[T \o "_raw"]],
            ContextProvenance(q.request_id, q.identity),
            ContextConstraints(q.redacted_fields))]
    @@ q

\* the awaited backend call of source S raised: the exception propagates
OnFetchError(q, S) ==
    Raise([failed_source |-> S] @@ q, "SourceError")

\* lines 526-593: entry, STEP 1, STEP 2, and the customer call up to its
\* sleep, with log the value of BackendServices.call_log at entry
RequestContextOn(log, r, inp, request_id) ==
    /\ req[r].pc = "new"
    /\ \A j \in 1..(r - 1) : req[j].pc # "new"
    /\ LET q == [pc |-> "customer",
                 intent |-> inp.intent,
                 parameters |-> inp.parameters,
                 agent_token |-> inp.agent_token,
                 request_id |-> request_id,
                 identity |-> Identity(inp.agent_token, inp.intent),
                 allowed_fields |-> allowed_fields,
                 redacted_fields |-> redacted_fields]
       IN  IF "applicant_id" \in DOMAIN inp.parameters
           THEN /\ call_log' = Append(log,
                       customer_service_call(inp.parameters.applicant_id,
                                             caller_name(request_id)))
                /\ req' = [req EXCEPT ![r] = q]
           ELSE /\ req' = [req EXCEPT ![r] = Raise(q, "KeyError")]
                /\ call_log' = log
    /\ UNCHANGED <<audit_log, auditVars, compareVars>>

RequestContext(r, inp, request_id) ==
    RequestContextOn(call_log, r, inp, request_id)

\* lines 591-599: the awaited customer call hands back a profile; the
\* account call starts
CustomerReturnsWith(r, profile) ==
    /\ req[r].pc = "customer"
    /\ LET q == req[r] IN
       /\ call_log' = Append(call_log,
              account_service_call(q.parameters.applicant_id,
                                   caller_name(q.request_id)))
       /\ req' = [req EXCEPT ![r] =
              [pc |-> "account", customer_raw |-> profile] @@ q]
    /\ UNCHANGED <<audit_log, auditVars, compareVars>>

\* lines 591-599: the customer profile of the repository's backend arrives
CustomerReturns(r) ==
    CustomerReturnsWith(r,
        customer_service_get_profile(req[r].parameters.applicant_id))

\* a customer source whose records carry four fields only
ScenarioCustomerProfile ==
    [name |-> "John Smith",
     ssn |-> "123-45-6789",
     annual_income |-> 85000,
     internal_notes |-> "VIP - handle with care"]

\* lines 591-599: the customer call is answered by that source
CustomerReturnsScenario(r) ==
    CustomerReturnsWith(r, ScenarioCustomerProfile)

\* lines 597-605: the account history arrives; the credit call starts
AccountReturns(r) ==
    /\ req[r].pc = "account"
    /\ LET q == req[r] IN
       /\ call_log' = Append(call_log,
              credit_bureau_call(q.parameters.applicant_id,
                                 caller_name(q.request_id)))
       /\ req' = [req EXCEPT ![r] =
              [pc |-> "credit",
               account_raw |->
                   account_service_get_history(q.parameters.applicant_id)]
              @@ q]
    /\ UNCHANGED <<audit_log, auditVars, compareVars>>

\* lines 603-611: the credit report arrives; the property call starts, or
\* parameters["property_id"] raises KeyError
CreditReturns(r) ==
    /\ req[r].pc = "credit"
    /\ LET q == [credit_raw |->
                    credit_bureau_get_score(req[r].parameters.applicant_id)]
                @@ req[r]
       IN  IF "property_id" \in DOMAIN q.parameters
           THEN /\ call_log' = Append(call_log,
                       property_service_call(q.parameters.property_id,
                                             caller_name(q.request_id)))
                /\ req' = [req EXCEPT ![r] = [pc |-> "property"] @@ q]
           ELSE /\ req' = [req EXCEPT ![r] = Raise(q, "KeyError")]
                /\ UNCHANGED call_log
    /\ UNCHANGED <<audit_log, auditVars, compareVars>>

\* lines 609-615: the valuation arrives; the policy call starts
PropertyReturns(r) ==
    /\ req[r].pc = "property"
    /\ LET q == req[r] IN
       /\ call_log' = Append(call_log,
              policy_service_call(caller_name(q.request_id)))
       /\ req' = [req EXCEPT ![r] =
              [pc |-> "policy",
               property_raw |->
                   property_service_get_valuation(q.parameters.property_id)]
              @@ q]
    /\ UNCHANGED <<audit_log, auditVars, compareVars>>

\* lines 639-641: the customer keys the filter subscripts
FilteredCustomerKeys == {"name", "employment_status", "annual_income"}

\* lines 615-737: the lending rules arrive; STEP 4, STEP 5, the audit
\* append and the return of the envelope. STEP 4 subscripts the raw customer
\* dict: a missing key raises KeyError out of request_context, before the
\* audit append.
PolicyReturns(r) ==
    /\ req[r].pc = "policy"
    /\ LET q == [policy_raw |-> policy_service_get_lending_rules] @@ req[r]
           filtered_payload ==
               FilteredPayload(q.customer_raw, q.account_raw, q.credit_raw,
                               q.property_raw, q.policy_raw)
           provenance == ContextProvenance(q.request_id, q.identity)
           constraints == ContextConstraints(q.redacted_fields)
       IN  IF FilteredCustomerKeys \subseteq DOMAIN q.customer_raw
           THEN /\ audit_log' = AuditAppend(audit_log,
                       AuditRecord(q.request_id, q.agent_token, q.intent,
                                   provenance, q.redacted_fields))
                /\ req' = [req EXCEPT ![r] =
                       [pc |-> "returned",
                        envelope |-> GovernedContextEnvelope(filtered_payload,
                                         provenance, constraints)]
                       @@ q]
           ELSE /\ audit_log' = audit_log
                /\ req' = [req EXCEPT ![r] = Raise(q, "KeyError")]
    /\ UNCHANGED <<call_log, auditVars, compareVars>>

\* lines 589-616: an awaited backend call raises instead of returning
FetchRaises(r) ==
    /\ InFlight(req[r])
    /\ req' = [req EXCEPT ![r] = OnFetchError(req[r], req[r].pc)]
    /\ UNCHANGED <<call_log, audit_log, auditVars, compareVars>>

\* lines 589-616: the backend call the request is suspended in never
\* completes.  Each call is awaited as it is, with no timeout around it
\* (no asyncio.wait_for, no asyncio.timeout) and nothing that cancels it,
\* so the statement after the await is never reached.
FetchHangs(r) ==
    /\ InFlight(req[r])
    /\ req' = [req EXCEPT ![r] =
           [pc |-> "blocked", blocked_on |-> req[r].pc] @@ req[r]]
    /\ UNCHANGED <<call_log, audit_log, auditVars, compareVars>>

\* lines 718-727: audit_log.append raises; the return is never reached.
\* The append is reached only when STEP 4 has built the payload, that is,
\* when the raw customer dict has the keys the filter subscripts.
AuditAppendRaises(r) ==
    /\ req[r].pc = "policy"
    /\ FilteredCustomerKeys \subseteq DOMAIN req[r].customer_raw
    /\ req' = [req EXCEPT ![r] =
           Raise([policy_raw |-> policy_service_get_lending_rules] @@ req[r],
                 "StorageError")]
    /\ UNCHANGED <<call_log, audit_log, auditVars, compareVars>>

(***************************************************************************)
(* The headless-agent demo: ActionType, AuditEvent, SecurityPolicy,        *)
(* AuditLogger and HeadlessAgent.verify_access.                            *)
(***************************************************************************)
\* the members of the enum, by name
ActionType ==
    {"FILE_CREATE", "FILE_UPDATE", "FILE_DELETE", "REPO_ACCESS",
     "POLICY_CHECK"}

\* member.value
ActionValue(action) ==
    CASE action = "FILE_CREATE" -> "file_create"
      [] action = "FILE_UPDATE" -> "file_update"
      [] action = "FILE_DELETE" -> "file_delete"
      [] action = "REPO_ACCESS" -> "repo_access"
      [] action = "POLICY_CHECK" -> "policy_check"

\* str(bool), as an f-string formats it
PyStr(b) == IF b THEN "True" ELSE "False"

\* hashlib.sha256(content.encode()).hexdigest()[:16], taken to be free of
\* collisions: two contents have one digest only if they are equal
sha256_16(content) == "sha256:" \o content

\* the string AuditEvent.__post_init__ and verify_integrity both hash:
\* six fields, one after the other with nothing between them; details and
\* signature are not among them
SignedContent(e) ==
    e.timestamp \o e.agent_id \o ActionValue(e.action) \o e.repo
        \o e.resource \o PyStr(e.success)

\* an event signed as if it had succeeded, whatever its success field says
AuditEventSignedAsSuccess(timestamp, agent_id, action, repo, resource, success, details) ==
    LET e == [timestamp |-> timestamp, agent_id |-> agent_id,
              action |-> action, repo |-> repo, resource |-> resource,
              success |-> success, details |-> details]
    IN  [signature |-> sha256_16(SignedContent([e EXCEPT !.success = TRUE]))]
        @@ e

\* AuditEvent(...): the dataclass with the signature __post_init__ computes
AuditEvent(timestamp, agent_id, action, repo, resource, success, details) ==
    LET e == [timestamp |-> timestamp, agent_id |-> agent_id,
              action |-> action, repo |-> repo, resource |-> resource,
              success |-> success, details |-> details]
    IN  [signature |-> sha256_16(SignedContent(e))] @@ e

AuditEventFields ==
    {"timestamp", "agent_id", "action", "repo", "resource", "success",
     "details", "signature"}

\* SecurityPolicy.__init__
authorized_repos ==
    ("sd-agentic-lab" :> <<"agent-101", "agent-102">>)
    @@ ("secure-repo" :> <<"agent-101">>)
    @@ ("public-docs" :> <<"agent-101", "agent-102", "agent-103">>)

\* a check that looks at the repository only
can_access_repo_known_repo(agent_id, repo) == repo \in DOMAIN authorized_repos

can_access_repo(agent_id, repo) ==
    /\ repo \in DOMAIN authorized_repos
    /\ \E i \in DOMAIN authorized_repos[repo] :
           authorized_repos[repo][i] = agent_id

\* the agents run_demo creates and the repositories it names, with one
\* repository the policy does not know
Agents == {"agent-101", "agent-102", "agent-103"}

Repos == DOMAIN authorized_repos \cup {"other-repo"}

\* datetime.datetime.utcnow().isoformat(), one string per clock reading
Timestamp(n) == "2025-01-01T00:00:0" \o ToString(n)

Timestamps == { Timestamp(n) : n \in 1..MaxClock }

\* a writer that puts only the newest event in the file
PersistedLogLastOnly(evs) ==
    [exists |-> TRUE,
     data |-> IF evs = <<>> THEN <<>>
              ELSE <<[evs[Len(evs)] EXCEPT
                         !.action = ActionValue(evs[Len(evs)].action)]>>]

\* AuditLogger._persist_log: the list written to log_path, each event as
\* a dict with its action replaced by the action's value
PersistedLog(evs) ==
    [exists |-> TRUE,
     data |-> [i \in DOMAIN evs |->
                  [evs[i] EXCEPT !.action = ActionValue(evs[i].action)]]]

\* AuditLogger.verify_integrity: the index of the first event whose
\* signature is not the digest of its content (the one it reports), 0 if
\* there is none
FirstIntegrityViolation(evs) ==
    LET bad == { i \in DOMAIN evs :
                    evs[i].signature # sha256_16(SignedContent(evs[i])) }
    IN  IF bad = {} THEN 0
        ELSE CHOOSE i \in bad : \A j \in bad : i <= j

verify_integrity(evs) == FirstIntegrityViolation(evs) = 0

\* the event HeadlessAgent.verify_access creates (lines 176-184)
verify_access_event(agent_id, repo, timestamp) ==
    LET can_access == can_access_repo(agent_id, repo)
    IN  AuditEvent(timestamp, agent_id, "REPO_ACCESS", repo, "access_check",
                   can_access,
                   [reason |-> IF can_access THEN "authorized"
                               ELSE "unauthorized"])

\* HeadlessAgent.verify_access: the event is logged (appended and the whole
\* log written to the file) whether access is granted or not; the call then
\* returns True or raises PermissionError
VerifyAccess(agent_id, repo, timestamp) ==
    /\ Len(events) < MaxEvents
    /\ LET event == verify_access_event(agent_id, repo, timestamp)
       IN  /\ events' = Append(events, event)
           /\ created' = Append(created, event)
           /\ log_file' = PersistedLog(events')
    /\ result' = [n |-> result.n + 1, op |-> "verify_access",
                  agent_id |-> agent_id, repo |-> repo,
                  outcome |-> IF can_access_repo(agent_id, repo)
                              THEN "returned" ELSE "PermissionError"]
    /\ UNCHANGED <<workspace, loaded, proxyVars, compareVars>>

\* the values a field of a stored event may be overwritten with
TamperValues(f) ==
    CASE f = "timestamp" -> Timestamps \cup {"1999-12-31T23:59:59"}
      [] f = "agent_id" -> Agents
      [] f = "action" -> ActionType
      [] f = "repo" -> Repos
      [] f = "resource" -> {"access_check", "config.yaml"}
      [] f = "success" -> BOOLEAN
      [] f = "details" -> {[reason |-> "authorized"],
                           [reason |-> "unauthorized"]}
      [] f = "signature" -> {"0000000000000000"}

\* the stored event fields whose value is no longer the one they were
\* created with
Tampered ==
    { <<i, f>> \in (DOMAIN events) \X AuditEventFields :
          events[i][f] # created[i][f] }

\* AuditEvent is a plain (not frozen) dataclass and AuditLogger.events a
\* plain list: whoever holds the logger can assign to a field of a stored
\* event.  One field of one event is changed.
TamperEvent(i, f, v) ==
    /\ i \in DOMAIN events
    /\ Tampered = {}
    /\ v # events[i][f]
    /\ events' = [events EXCEPT ![i][f] = v]
    /\ UNCHANGED <<log_file, created, workspace, result, loaded, proxyVars,
                   compareVars>>

(***************************************************************************)
(* SecurityPolicy (actions, restricted files) and HeadlessAgent.create_file *)
(* and update_file.                                                        *)
(***************************************************************************)
\* SecurityPolicy.__init__, lines 76-80
allowed_actions ==
    ("agent-101" :> <<"FILE_CREATE", "FILE_UPDATE", "REPO_ACCESS">>)
    @@ ("agent-102" :> <<"FILE_CREATE", "FILE_UPDATE">>)
    @@ ("agent-103" :> <<"FILE_CREATE">>)

\* a check that asks only whether the agent has any action at all
can_perform_action_any(agent_id, action) == agent_id \in DOMAIN allowed_actions

\* action in self.allowed_actions.get(agent_id, [])
can_perform_action(agent_id, action) ==
    /\ agent_id \in DOMAIN allowed_actions
    /\ \E i \in DOMAIN allowed_actions[agent_id] :
           allowed_actions[agent_id][i] = action

\* SecurityPolicy.__init__, lines 71-73
restricted_files == {"*.key", "*.pem", "secrets.yaml", ".env"}

\* pattern.replace("*", ""): the string without its asterisks
RECURSIVE replace_star(_)
replace_star(pattern) ==
    IF pattern = "" THEN ""
    ELSE (IF SubSeq(pattern, 1, 1) = "*" THEN "" ELSE SubSeq(pattern, 1, 1))
             \o replace_star(SubSeq(pattern, 2, Len(pattern)))

\* str.endswith
EndsWith(filename, suffix) ==
    /\ Len(filename) >= Len(suffix)
    /\ SubSeq(filename, Len(filename) - Len(suffix) + 1, Len(filename))
           = suffix

\* a check that compares with the patterns as written, asterisk and all
is_file_restricted_without_replace(filename) ==
    \E pattern \in restricted_files : EndsWith(filename, pattern)

\* a check that takes every .yaml file for secrets.yaml
is_file_restricted_every_yaml(filename) ==
    \E suffix \in {".key", ".pem", ".yaml", ".env"} :
        EndsWith(filename, suffix)

\* any(filename.endswith(pattern.replace("*", "")) for pattern in ...)
is_file_restricted(filename) ==
    \E pattern \in restricted_files :
        EndsWith(filename, replace_star(pattern))

\* the file paths and texts the agents are called with, all of them relative
\* paths that stay inside the repository directory: config.yaml, which
\* run_demo creates and updates; config.yaml/x, which makes config.yaml a
\* directory, or runs into the file config.yaml; and one path for each
\* restricted pattern
FilePaths ==
    {"config.yaml", "config.yaml/x", "secrets.yaml", "server.key", "cert.pem",
     ".env"}

Contents == {"debug: true", "debug: false"}

EmptyWorkspace == [f \in {} |-> ""]

\* the temporary directory run_demo makes, by a name
workspace_dir == "/tmp/workspace"

\* str(self.workspace_dir / repo / file_path)
full_path(repo, file_path) == workspace_dir \o "/" \o repo \o "/" \o file_path

\* the directories a relative path names on its way to its last component
Ancestors(file_path) ==
    { SubSeq(file_path, 1, i - 1) :
          i \in { j \in 1..Len(file_path) : SubSeq(file_path, j, j) = "/" } }

\* full_path.parent, relative to the repository; "" for the repository
Parent(file_path) ==
    IF Ancestors(file_path) = {} THEN ""
    ELSE CHOOSE a \in Ancestors(file_path) :
             \A b \in Ancestors(file_path) : Len(b) <= Len(a)

\* the path is a regular file of the workspace
is_file(files, repo, file_path) == <<repo, file_path>> \in DOMAIN files

\* the path is a directory of the workspace: some file lies below it
is_dir(files, repo, file_path) ==
    \E k \in DOMAIN files : k[1] = repo /\ file_path \in Ancestors(k[2])

\* str(e) of an OSError raised for a path
OSErrorText(errno, strerror, path) ==
    "[Errno " \o errno \o "] " \o strerror \o ": '" \o path \o "'"

NoError == [error |-> "none"]

\* a file system on which mkdir and write_text never fail
create_file_error_never(files, repo, file_path) == NoError

\* what the try block of create_file raises (lines 204-207), if anything:
\* full_path.parent.mkdir(parents=True, exist_ok=True) fails on a parent
\* that is a file (os.mkdir: EEXIST) or that lies below a file (ENOTDIR),
\* and full_path.write_text(content) fails on a directory (EISDIR)
create_file_error(files, repo, file_path) ==
    LET parent == Parent(file_path)
    IN  IF is_file(files, repo, parent)
        THEN [error |-> "FileExistsError",
              message |-> OSErrorText("17", "File exists",
                                      full_path(repo, parent))]
        ELSE IF \E a \in Ancestors(file_path) : is_file(files, repo, a)
        THEN [error |-> "NotADirectoryError",
              message |-> OSErrorText("20", "Not a directory",
                                      full_path(repo, parent))]
        ELSE IF is_dir(files, repo, file_path)
        THEN [error |-> "IsADirectoryError",
              message |-> OSErrorText("21", "Is a directory",
                                      full_path(repo, file_path))]
        ELSE NoError

\* what the try block of update_file raises (lines 243-251), if anything:
\* FileNotFoundError when full_path.exists() is false, and
\* full_path.read_text() fails on a directory (EISDIR)
update_file_error(files, repo, file_path) ==
    IF is_file(files, repo, file_path) THEN NoError
    ELSE IF is_dir(files, repo, file_path)
    THEN [error |-> "IsADirectoryError",
          message |-> OSErrorText("21", "Is a directory",
                                  full_path(repo, file_path))]
    ELSE [error |-> "FileNotFoundError",
          message |-> "File " \o file_path \o " does not exist"]

\* full_path.write_text(content)
write_text(files, repo, file_path, content) ==
    (<<repo, file_path>> :> content) @@ files

\* hashlib.md5(content.encode()).hexdigest(), taken to be free of collisions
md5(content) == "md5:" \o content

\* f"commit-{int(datetime.datetime.utcnow().timestamp())}" for the n-th
\* reading of the clock: Timestamp(n) as seconds since the epoch
commit_id(n) == "commit-" \o ToString(1735689600 + n)

\* AuditLogger.log_event for each event of new, in order: appended, then
\* the whole list written to the file
LogEvents(new) ==
    /\ events' = events \o new
    /\ created' = created \o new
    /\ log_file' = PersistedLog(events')

\* the call and its outcome: what it returned, or the exception it raised
CallResult(op, agent_id, repo, file_path, content, outcome) ==
    [n |-> result.n + 1, op |-> op, agent_id |-> agent_id, repo |-> repo,
     file_path |-> file_path, content |-> content] @@ outcome

Returns(value) == [outcome |-> "returned", value |-> value]

Raises(error) == [outcome |-> error]

\* HeadlessAgent.create_file, lines 192-231.  t1 is the clock reading of the
\* access event, n that of the commit id, t2 that of the file event.  An
\* exception inside the try goes to the handler, which logs a failed
\* FILE_CREATE event and raises it again.
CreateFile(agent_id, repo, file_path, content, t1, n, t2) ==
    /\ result.n < MaxCalls
    /\ LET access == verify_access_event(agent_id, repo, t1)
           failure == create_file_error(workspace, repo, file_path)
           call(outcome) ==
               CallResult("create_file", agent_id, repo, file_path, content,
                          outcome)
       IN  IF \/ ~can_access_repo(agent_id, repo)
              \/ ~can_perform_action(agent_id, "FILE_CREATE")
              \/ is_file_restricted(file_path)
           THEN /\ LogEvents(<<access>>)
                /\ result' = call(Raises("PermissionError"))
                /\ UNCHANGED workspace
           ELSE IF failure.error # "none"
           THEN /\ LogEvents(<<access,
                       AuditEvent(t2, agent_id, "FILE_CREATE", repo, file_path,
                                  FALSE, [error |-> failure.message])>>)
                /\ result' = call(Raises(failure.error))
                /\ UNCHANGED workspace
           ELSE /\ workspace' = write_text(workspace, repo, file_path, content)
                /\ LogEvents(<<access,
                       AuditEvent(t2, agent_id, "FILE_CREATE", repo, file_path,
                                  TRUE,
                                  [commit_id |-> commit_id(n),
                                   content_hash |-> md5(content)])>>)
                /\ result' = call(Returns(commit_id(n)))
    /\ UNCHANGED <<loaded, proxyVars, compareVars>>

\* HeadlessAgent.update_file, lines 233-279: no restricted-file check; an
\* exception inside the try (the file is missing, or is a directory) goes to
\* the handler, which logs a failed FILE_UPDATE event and raises it again
UpdateFile(agent_id, repo, file_path, content, t1, n, t2) ==
    /\ result.n < MaxCalls
    /\ LET access == verify_access_event(agent_id, repo, t1)
           failure == update_file_error(workspace, repo, file_path)
           call(outcome) ==
               CallResult("update_file", agent_id, repo, file_path, content,
                          outcome)
       IN  IF \/ ~can_access_repo(agent_id, repo)
              \/ ~can_perform_action(agent_id, "FILE_UPDATE")
           THEN /\ LogEvents(<<access>>)
                /\ result' = call(Raises("PermissionError"))
                /\ UNCHANGED workspace
           ELSE IF failure.error # "none"
           THEN /\ LogEvents(<<access,
                       AuditEvent(t2, agent_id, "FILE_UPDATE", repo, file_path,
                                  FALSE, [error |-> failure.message])>>)
                /\ result' = call(Raises(failure.error))
                /\ UNCHANGED workspace
           ELSE /\ workspace' = write_text(workspace, repo, file_path, content)
                /\ LogEvents(<<access,
                       AuditEvent(t2, agent_id, "FILE_UPDATE", repo, file_path,
                                  TRUE,
                                  [commit_id |-> commit_id(n),
                                   original_hash |->
                                       md5(workspace[<<repo, file_path>>]),
                                   new_hash |-> md5(content)])>>)
                /\ result' = call(Returns(commit_id(n)))
    /\ UNCHANGED <<loaded, proxyVars, compareVars>>

\* AuditLogger._load_existing_log, lines 106-113, as __init__ runs it on
\* an empty events list.  AuditEvent(**event) is evaluated for the entries
\* in order, and the first one already ends the loading: an entry that
\* lacks a field other than signature, or has a key that is no field,
\* raises TypeError, which is caught (a warning is printed and events stays
\* empty); any other entry reaches __post_init__, which evaluates
\* self.action.value on the str JSON gives for the action: AttributeError,
\* which the except clause (JSONDecodeError, TypeError) does not catch.
load_existing_log(file) ==
    IF ~file.exists \/ file.data = <<>>
    THEN [status |-> "constructed", events |-> <<>>]
    ELSE IF /\ (AuditEventFields \ {"signature"}) \subseteq DOMAIN file.data[1]
            /\ DOMAIN file.data[1] \subseteq AuditEventFields
    THEN [status |-> "raised", error |-> "AttributeError"]
    ELSE [status |-> "constructed", events |-> <<>>]

\* AuditLogger(log_path) is constructed again on the path of the first
NewAuditLogger ==
    /\ loaded' = load_existing_log(log_file)
    /\ UNCHANGED <<events, log_file, created, workspace, result, proxyVars,
                   compareVars>>

\* HeadlessAgent.verify_access of an agent that was given the second
\* AuditLogger: log_event appends to that instance's own events list and
\* _persist_log writes that list, and nothing else, over the file
VerifyAccessOnSecond(agent_id, repo, timestamp) ==
    /\ loaded.status = "constructed"
    /\ Len(loaded.events) < MaxEvents
    /\ LET event == verify_access_event(agent_id, repo, timestamp)
       IN  /\ loaded' = [loaded EXCEPT !.events = Append(@, event)]
           /\ created' = Append(created, event)
           /\ log_file' = PersistedLog(loaded'.events)
    /\ result' = [n |-> result.n + 1, op |-> "verify_access",
                  agent_id |-> agent_id, repo |-> repo,
                  outcome |-> IF can_access_repo(agent_id, repo)
                              THEN "returned" ELSE "PermissionError"]
    /\ UNCHANGED <<events, workspace, proxyVars, compareVars>>

(***************************************************************************)
(* run_comparison: TraditionalLoanAgent.assess_loan, then, on a reset      *)
(* call_log and a new proxy, MCPLoanAgent.assess_loan, for one applicant,  *)
(* property and amount.                                                    *)
(***************************************************************************)
\* the arguments of the two assess_loan calls: those of run_comparison
\* ("CUST-12345", "PROP-789", 280000.0) and others
Applicants == {"CUST-12345", "CUST-99999"}

Properties == {"PROP-789", "PROP-1"}

\* 280000 is the largest amount with 280000 / 350000 <= 0.80
Amounts == {100000, 280000, 280001, 350000}

\* TraditionalLoanAgent.__init__: self.caller_name
traditional_caller_name(agent_id) == "TraditionalAgent:" \o agent_id

(***************************************************************************)
(* Python floats.  A positive float is m * 2^e with 2^52 <= m < 2^53; the   *)
(* 53-bit m is held as hi * 2^27 + lo with lo < 2^27, and zero as m = 0.   *)
(* The quantities involved are far from overflow and from subnormal        *)
(* numbers.                                                                *)
(***************************************************************************)
Two27 == 2^27

\* c * p, for a two-part number p and 0 <= c <= 16 with c * p < 2^58
Times(c, p) ==
    [hi |-> c * p.hi + (c * p.lo) \div Two27, lo |-> (c * p.lo) % Two27]

\* p >= q
AtLeast(p, q) == p.hi > q.hi \/ (p.hi = q.hi /\ p.lo >= q.lo)

\* p - q, for p >= q
Minus(p, q) ==
    IF p.lo >= q.lo
    THEN [hi |-> p.hi - q.hi, lo |-> p.lo - q.lo]
    ELSE [hi |-> p.hi - q.hi - 1, lo |-> p.lo + Two27 - q.lo]

\* p + c, for 0 <= c < 2^27
Plus(p, c) ==
    [hi |-> p.hi + (p.lo + c) \div Two27, lo |-> (p.lo + c) % Two27]

\* float(n) for an int 0 <= n < 2^31: exact; n is shifted up by s bits to
\* fill the 53
float(n) ==
    IF n = 0 THEN [hi |-> 0, lo |-> 0, e |-> 0]
    ELSE LET s == CHOOSE s \in 22..52 : n \div 2^(52 - s) = 1
         IN  [hi |-> IF s >= 27 THEN n * 2^(s - 27) ELSE n \div 2^(27 - s),
              lo |-> IF s >= 27 THEN 0 ELSE (n % 2^(27 - s)) * 2^s,
              e |-> 0 - s]

\* one step of long division by d in base 16: the next digit of the
\* quotient, the largest c with c * d <= 16 * r, appended to the digits q,
\* and the remainder left, for r < d
NextDigit(q, r, d) ==
    LET r16 == Times(16, r)
        c == CHOOSE c \in 0..15 : /\ AtLeast(r16, Times(c, d))
                                  /\ ~AtLeast(r16, Times(c + 1, d))
    IN  [q |-> Plus(Times(16, q), c), r |-> Minus(r16, Times(c, d))]

RECURSIVE QuotientDigits(_, _, _)
\* the leading 1 and the next k base-16 digits of the quotient n / d, for
\* d <= n < 2 * d, and the remainder they leave
QuotientDigits(n, d, k) ==
    IF k = 0 THEN [q |-> [hi |-> 0, lo |-> 1], r |-> Minus(n, d)]
    ELSE LET first == QuotientDigits(n, d, k - 1)
         IN  NextDigit(first.q, first.r, d)

\* the 53 quotient bits q with the remainder r they leave, rounded to
\* nearest, ties to even, with exponent e
Rounded(q, r, d, e) ==
    LET twice == Times(2, r)
        up == IF twice = d THEN q.lo % 2 = 1 ELSE AtLeast(twice, d)
        m == IF up THEN Plus(q, 1) ELSE q
    IN  IF m.hi = 2^26 THEN [hi |-> 2^25, lo |-> 0, e |-> e + 1]
        ELSE [hi |-> m.hi, lo |-> m.lo, e |-> e]

\* x / y for floats x >= 0 and y >= 0: the exact quotient rounded to 53
\* bits; a zero divisor raises ZeroDivisionError
truediv(x, y) ==
    IF y.hi = 0 THEN "ZeroDivisionError"
    ELSE IF x.hi = 0 THEN x
    ELSE LET mx == [hi |-> x.hi, lo |-> x.lo]
             my == [hi |-> y.hi, lo |-> y.lo]
         IN  IF AtLeast(mx, my)
             THEN LET d == QuotientDigits(mx, my, 13)
                  IN  Rounded(d.q, d.r, my, x.e - y.e - 52)
             ELSE LET d == QuotientDigits(Times(2, mx), my, 13)
                  IN  Rounded(d.q, d.r, my, x.e - y.e - 53)

\* x <= y for floats x, y >= 0
le(x, y) ==
    IF x.hi = 0 THEN TRUE
    ELSE IF y.hi = 0 THEN FALSE
    ELSE \/ x.e < y.e
         \/ x.e = y.e /\ AtLeast([hi |-> y.hi, lo |-> y.lo],
                                 [hi |-> x.hi, lo |-> x.lo])

\* the float a literal such as 0.43 denotes, from its value in hundredths:
\* the float nearest to h / 100
Hundredths(h) == truediv(float(h), float(100))

\* the decision both agents compute (lines 352-361 and 779-791):
\*   dti_ratio = (requested_amount / 360) / (annual_income / 12)
\*   ltv_ratio = requested_amount / estimated_value
\* in float arithmetic, compared with max_dti_ratio and max_loan_to_value,
\* which the model holds in hundredths.  With an annual_income or an
\* estimated_value of zero the division raises ZeroDivisionError, which
\* leaves assess_loan.
Decision(requested_amount, annual_income, estimated_value, score, account_age_months, policy) ==
    IF annual_income = 0 \/ estimated_value = 0 THEN "ZeroDivisionError"
    ELSE
    LET dti_ratio == truediv(truediv(float(requested_amount), float(360)),
                             truediv(float(annual_income), float(12)))
        ltv_ratio == truediv(float(requested_amount), float(estimated_value))
    IN  IF /\ score >= policy.min_credit_score
           /\ le(dti_ratio, Hundredths(policy.max_dti_ratio))
           /\ account_age_months >= policy.min_account_age_months
           /\ le(ltv_ratio, Hundredths(policy.max_loan_to_value))
        THEN "APPROVED" ELSE "DENIED"

\* lines 857-861 and 271-284: the log is reset, the agent is made and
\* assess_loan runs up to the sleep of the customer service
TraditionalAssessLoan(applicant_id, property_id, requested_amount) ==
    /\ trad.pc = "new"
    /\ \A r \in RequestSlots : req[r].pc = "new"
    /\ trad' = [pc |-> "customer", agent_id |-> "agent-001",
                applicant_id |-> applicant_id, property_id |-> property_id,
                requested_amount |-> requested_amount]
    /\ call_log' = <<customer_service_call(applicant_id,
                         traditional_caller_name("agent-001"))>>
    /\ UNCHANGED <<audit_log, req, traditional_calls, auditVars>>

\* lines 282-299
TraditionalCustomerReturns ==
    /\ trad.pc = "customer"
    /\ trad' = [pc |-> "account",
                customer |-> customer_service_get_profile(trad.applicant_id)]
               @@ trad
    /\ call_log' = Append(call_log,
           account_service_call(trad.applicant_id,
                                traditional_caller_name(trad.agent_id)))
    /\ UNCHANGED <<audit_log, req, traditional_calls, auditVars>>

\* lines 297-314
TraditionalAccountReturns ==
    /\ trad.pc = "account"
    /\ trad' = [pc |-> "credit",
                account |-> account_service_get_history(trad.applicant_id)]
               @@ trad
    /\ call_log' = Append(call_log,
           credit_bureau_call(trad.applicant_id,
                              traditional_caller_name(trad.agent_id)))
    /\ UNCHANGED <<audit_log, req, traditional_calls, auditVars>>

\* lines 312-329
TraditionalCreditReturns ==
    /\ trad.pc = "credit"
    /\ trad' = [pc |-> "property",
                credit |-> credit_bureau_get_score(trad.applicant_id)]
               @@ trad
    /\ call_log' = Append(call_log,
           property_service_call(trad.property_id,
                                 traditional_caller_name(trad.agent_id)))
    /\ UNCHANGED <<audit_log, req, traditional_calls, auditVars>>

\* lines 327-339
TraditionalPropertyReturns ==
    /\ trad.pc = "property"
    /\ trad' = [pc |-> "policy",
                property_data |->
                    property_service_get_valuation(trad.property_id)]
               @@ trad
    /\ call_log' = Append(call_log,
           policy_service_call(traditional_caller_name(trad.agent_id)))
    /\ UNCHANGED <<audit_log, req, traditional_calls, auditVars>>

\* lines 339-387 and 862: the lending rules arrive, the agent decides on
\* the raw data and returns; run_comparison copies the call_log
TraditionalPolicyReturns ==
    /\ trad.pc = "policy"
    /\ LET policy == policy_service_get_lending_rules
           decision == Decision(trad.requested_amount,
                                trad.customer.annual_income,
                                trad.property_data.estimated_value,
                                trad.credit.score,
                                trad.account.account_age_months,
                                policy)
       IN  IF decision = "ZeroDivisionError"
           THEN /\ trad' = [pc |-> "raised", error |-> decision,
                            policy |-> policy] @@ trad
                /\ traditional_calls' = traditional_calls
           ELSE /\ trad' = [pc |-> "returned",
                            policy |-> policy,
                            result |-> [approach |-> "TRADITIONAL API",
                                        decision |-> decision]]
                           @@ trad
                /\ traditional_calls' = call_log
    /\ UNCHANGED <<call_log, audit_log, req, auditVars>>

\* a request whose applicant_id and property_id are taken from each other
McpParametersSwapped(applicant_id, property_id, requested_amount) ==
    [applicant_id |-> property_id, property_id |-> applicant_id,
     requested_amount |-> requested_amount]

\* the parameters dict MCPLoanAgent.assess_loan passes (lines 763-767)
McpParameters(applicant_id, property_id, requested_amount) ==
    [applicant_id |-> applicant_id, property_id |-> property_id,
     requested_amount |-> requested_amount]

\* lines 868-873 and 761-769: the log is reset, a new proxy and the MCP
\* agent are made, and assess_loan calls request_context, which runs up to
\* the sleep of the customer service
McpAssessLoan(request_id) ==
    /\ trad.pc = "returned"
    /\ RequestContextOn(<<>>, 1,
           [intent |-> "loan_assessment",
            parameters |-> McpParameters(trad.applicant_id, trad.property_id,
                                         trad.requested_amount),
            agent_token |-> "loan-agent-001"],
           request_id)

\* lines 776-791: what MCPLoanAgent.assess_loan returns once request_context
\* has returned envelope; it decides on the filtered payload (a decision of
\* "ZeroDivisionError" stands for the exception leaving the call)
McpAssessResult(envelope, requested_amount) ==
    [approach |-> "MCP CONTEXT MESH",
     decision |->
        Decision(requested_amount,
                 envelope.payload.customer.annual_income,
                 envelope.payload.property.estimated_value,
                 envelope.payload.credit.score,
                 envelope.payload.account.account_age_months,
                 envelope.payload.policy)]

InitProxy ==
    /\ call_log = <<>>
    /\ audit_log = <<>>
    /\ req = [r \in RequestSlots |-> [pc |-> "new"]]

InitAudit ==
    /\ events = <<>>
    /\ log_file = [exists |-> FALSE]
    /\ created = <<>>
    /\ workspace = EmptyWorkspace
    /\ result = [n |-> 0]
    /\ loaded = [status |-> "none"]

InitCompare ==
    /\ trad = [pc |-> "new"]
    /\ traditional_calls = <<>>

\* the contents the workspace directory may have when the agents are
\* constructed on it: nothing, as in run_demo, or a repository that already
\* holds a secrets file
InitialWorkspaces ==
    { EmptyWorkspace,
      <<"secure-repo", "secrets.yaml">> :> "debug: true" }

InitSeeded ==
    /\ InitProxy
    /\ InitCompare
    /\ events = <<>>
    /\ log_file = [exists |-> FALSE]
    /\ created = <<>>
    /\ workspace \in InitialWorkspaces
    /\ result = [n |-> 0]
    /\ loaded = [status |-> "none"]

Init == InitProxy /\ InitAudit /\ InitCompare

\* The callers of the repository await one request_context call at a time.
Next ==
    \/ /\ NoRequestInFlight
       /\ \E r \in RequestSlots, inp \in RequestInputs,
             request_id \in RequestIds :
             RequestContext(r, inp, request_id)
    \/ \E r \in RequestSlots : CustomerReturns(r)
    \/ \E r \in RequestSlots : AccountReturns(r)
    \/ \E r \in RequestSlots : CreditReturns(r)
    \/ \E r \in RequestSlots : PropertyReturns(r)
    \/ \E r \in RequestSlots : PolicyReturns(r)
    \/ \E r \in RequestSlots : FetchRaises(r)
    \/ \E r \in RequestSlots : FetchHangs(r)
    \/ \E r \in RequestSlots : AuditAppendRaises(r)

Spec == Init /\ [][Next]_vars

\* the inputs of the requests made concurrently: the call run_comparison
\* makes and the same call for another applicant
ConcurrentInputs ==
    { inp \in RequestInputs :
          /\ inp.intent = "loan_assessment"
          /\ inp.agent_token = "loan-agent-001"
          /\ DOMAIN inp.parameters = DOMAIN DemoParameters }

\* Several request_context calls made on one MCPProxyServer as tasks of one
\* event loop (asyncio.gather, asyncio.create_task): a call may start while
\* others are suspended, and the suspended calls resume in any order.
NextConcurrent ==
    \/ \E r \in RequestSlots, inp \in ConcurrentInputs,
          request_id \in RequestIds :
          RequestContext(r, inp, request_id)
    \/ \E r \in RequestSlots : CustomerReturns(r)
    \/ \E r \in RequestSlots : AccountReturns(r)
    \/ \E r \in RequestSlots : CreditReturns(r)
    \/ \E r \in RequestSlots : PropertyReturns(r)
    \/ \E r \in RequestSlots : PolicyReturns(r)
    \/ \E r \in RequestSlots : FetchRaises(r)

SpecConcurrent == Init /\ [][NextConcurrent]_vars

\* request_context called with the demo's inputs, one call at a time, on a
\* proxy whose customer source answers with either kind of record
NextScenario ==
    \/ /\ NoRequestInFlight
       /\ \E r \in RequestSlots, inp \in RequestInputs,
             request_id \in RequestIds :
             RequestContext(r, inp, request_id)
    \/ \E r \in RequestSlots : CustomerReturns(r)
    \/ \E r \in RequestSlots : CustomerReturnsScenario(r)
    \/ \E r \in RequestSlots : AccountReturns(r)
    \/ \E r \in RequestSlots : CreditReturns(r)
    \/ \E r \in RequestSlots : PropertyReturns(r)
    \/ \E r \in RequestSlots : PolicyReturns(r)

SpecScenario == Init /\ [][NextScenario]_vars

\* two AuditLogger instances on one log path, each handed to agents that
\* call verify_access on "secure-repo", in any interleaving
NextTwoLoggers ==
    \/ NewAuditLogger
    \/ \E agent_id \in Agents, timestamp \in Timestamps :
           VerifyAccess(agent_id, "secure-repo", timestamp)
    \/ \E agent_id \in Agents, timestamp \in Timestamps :
           VerifyAccessOnSecond(agent_id, "secure-repo", timestamp)

SpecTwoLoggers == Init /\ [][NextTwoLoggers]_vars

NextAudit ==
    \/ \E agent_id \in Agents, repo \in Repos, timestamp \in Timestamps :
           VerifyAccess(agent_id, repo, timestamp)
    \/ \E i \in 1..MaxEvents, f \in AuditEventFields :
           \E v \in TamperValues(f) : TamperEvent(i, f, v)
    \/ NewAuditLogger

SpecAudit == Init /\ [][NextAudit]_vars

\* the readings of the clock within one call, none earlier than the one
\* before it
ClockReadings ==
    { c \in (1..MaxClock) \X (1..MaxClock) \X (1..MaxClock) :
          c[1] <= c[2] /\ c[2] <= c[3] }

\* The agents of run_demo, sharing one SecurityPolicy, one AuditLogger and
\* one workspace, call verify_access, create_file and update_file in any
\* order; nothing else touches the logger's events.
NextAgent ==
    \/ /\ result.n < MaxCalls
       /\ \E agent_id \in Agents, repo \in Repos, timestamp \in Timestamps :
              VerifyAccess(agent_id, repo, timestamp)
    \/ \E agent_id \in Agents, repo \in Repos, file_path \in FilePaths,
          content \in Contents, c \in ClockReadings :
           CreateFile(agent_id, repo, file_path, content,
                      Timestamp(c[1]), c[2], Timestamp(c[3]))
    \/ \E agent_id \in Agents, repo \in Repos, file_path \in FilePaths,
          content \in Contents, c \in ClockReadings :
           UpdateFile(agent_id, repo, file_path, content,
                      Timestamp(c[1]), c[2], Timestamp(c[3]))

SpecAgent == Init /\ [][NextAgent]_vars

\* the same agents on a workspace with any of the initial contents
SpecSeeded == InitSeeded /\ [][NextAgent]_vars

\* run_comparison, for any of the applicants, properties and amounts
NextCompare ==
    \/ \E applicant_id \in Applicants, property_id \in Properties,
          requested_amount \in Amounts :
           TraditionalAssessLoan(applicant_id, property_id, requested_amount)
    \/ TraditionalCustomerReturns
    \/ TraditionalAccountReturns
    \/ TraditionalCreditReturns
    \/ TraditionalPropertyReturns
    \/ TraditionalPolicyReturns
    \/ \E request_id \in RequestIds : McpAssessLoan(request_id)
    \/ (trad.pc = "returned" /\ CustomerReturns(1))
    \/ (trad.pc = "returned" /\ AccountReturns(1))
    \/ (trad.pc = "returned" /\ CreditReturns(1))
    \/ (trad.pc = "returned" /\ PropertyReturns(1))
    \/ (trad.pc = "returned" /\ PolicyReturns(1))

SpecCompare == Init /\ [][NextCompare]_vars


(***************************************************************************)
(* Properties of MCPProxyServer.request_context.                           *)
(***************************************************************************)
FieldSet(fields) == { fields[i] : i \in DOMAIN fields }

Started == { r \in RequestSlots : req[r].pc # "new" }

Returned == { r \in RequestSlots : req[r].pc = "returned" }

\* the raw payloads a returned request fetched, by source
RawOf(q) ==
    [customer |-> q.customer_raw, account |-> q.account_raw,
     credit |-> q.credit_raw, property |-> q.property_raw,
     policy |-> q.policy_raw]

\* C1: for every returned envelope and every source S, the fields of the
\* payload's section for S are exactly the fields the policy decision of
\* that request allows for S, whatever else the raw payload carried.
C1_AllowListExact ==
    \A r \in Returned : \A S \in Sources :
        DOMAIN req[r].envelope.payload[S] = FieldSet(req[r].allowed_fields[S])

\* a returned request every raw payload of which carried fields outside the
\* allow-list
C1_Witness ==
    \E r \in Returned : \A S \in Sources :
        /\ DOMAIN RawOf(req[r])[S] \ FieldSet(req[r].allowed_fields[S]) # {}
        /\ FieldSet(req[r].allowed_fields[S]) \subseteq DOMAIN RawOf(req[r])[S]

\* the field names the raw payloads carried and the filtered payload lacks,
\* over the five sources
RemovedFields(q) ==
    UNION { DOMAIN RawOf(q)[S] \ DOMAIN q.envelope.payload[S] : S \in Sources }

\* C2: for every returned envelope, the set of constraints.redacted_fields
\* equals the set of field names present in the raw payloads and absent
\* from the filtered payload, over all five sources.
C2_RedactedIsDifference ==
    \A r \in Returned :
        FieldSet(req[r].envelope.constraints.redacted_fields)
            = RemovedFields(req[r])

AuditRecordsOf(request_id) ==
    { i \in DOMAIN audit_log : audit_log[i].request_id = request_id }

\* C3: for every returned envelope exactly one record of audit_log carries
\* the envelope's request_id (it is there when the envelope is returned),
\* and a request whose audit append failed returned no envelope.
C3_ExactlyOneAuditRecord ==
    \A r \in Started :
        /\ req[r].pc = "returned" =>
              Cardinality(AuditRecordsOf(
                  req[r].envelope.provenance.request_id)) = 1
        /\ (req[r].pc = "raised" /\ req[r].error = "StorageError") =>
              "envelope" \notin DOMAIN req[r]

\* the one agent token the repository hands to the proxy (run_comparison)
KnownAgentTokens == {"loan-agent-001"}

\* the one intent the proxy's policy is written for (STEP 1 and STEP 2 name
\* it in their messages)
IntentsWithPolicy == {"loan_assessment"}

\* the step in which request r is called
Called(r) == req[r].pc = "new" /\ req'[r].pc # "new"

FailsFast(r, error) ==
    /\ req'[r].pc = "raised"
    /\ req'[r].error = error
    /\ call_log' = call_log

\* C4: a call whose token belongs to no known principal fails with
\* AuthenticationError, one whose principal may not request the intent with
\* AuthorizationError, and in both cases call_log gains no entry.
C4_IdentityFailuresFailFast ==
    [][ \A r \in RequestSlots : Called(r) =>
          /\ req'[r].agent_token \notin KnownAgentTokens
                => FailsFast(r, "AuthenticationError")
          /\ (/\ req'[r].agent_token \in KnownAgentTokens
              /\ req'[r].intent \notin IntentsWithPolicy)
                => FailsFast(r, "AuthorizationError") ]_vars

\* C5: a call with an intent for which no policy exists fails with
\* PolicyNotFoundError; call_log gains no entry and no envelope is returned.
C5_UnknownIntentFailsFast ==
    [][ \A r \in RequestSlots : Called(r) =>
          (req'[r].intent \notin IntentsWithPolicy
              => FailsFast(r, "PolicyNotFoundError")) ]_vars

\* the service name under which provenance lists source S
ServiceName(S) ==
    CASE S = "customer" -> "customer-service"
      [] S = "account" -> "account-service"
      [] S = "credit" -> "credit-bureau"
      [] S = "property" -> "property-service"
      [] S = "policy" -> "policy-service"

\* C6: when the fetch of a source fails (the claim: of a source that is
\* optional for the intent; the code names none, and the property is stated
\* for whichever source is), the request still returns an envelope whose
\* provenance does not list that source, and no error reaches the caller.
C6_OptionalSourceFailureTolerated ==
    \A r \in Started :
        "failed_source" \in DOMAIN req[r] =>
            /\ req[r].pc = "returned"
            /\ \A i \in DOMAIN req[r].envelope.provenance.sources :
                   req[r].envelope.provenance.sources[i].service
                       # ServiceName(req[r].failed_source)

\* the fetch of a source of request q did not deliver: the backend call
\* raised, or its argument parameters[...] did
FetchFailed(q) ==
    \/ "failed_source" \in DOMAIN q
    \/ (q.pc = "raised" /\ q.error = "KeyError")

\* C7: when the fetch of a source fails the request fails, the error
\* reaches the caller, and no envelope is returned, not even one built from
\* the sources that had answered; every returned envelope was built from
\* all five raw payloads.
C7_RequiredSourceFailureFatal ==
    \A r \in Started :
        /\ FetchFailed(req[r]) =>
              /\ req[r].pc = "raised"
              /\ req[r].error \in {"SourceError", "KeyError"}
              /\ "envelope" \notin DOMAIN req[r]
        /\ req[r].pc = "returned" =>
              {"customer_raw", "account_raw", "credit_raw", "property_raw",
               "policy_raw"} \subseteq DOMAIN req[r]

\* the property fetch failed after customer, account and credit had answered
C7_Witness ==
    \E r \in Started :
        /\ "failed_source" \in DOMAIN req[r]
        /\ req[r].failed_source = "property"
        /\ {"customer_raw", "account_raw", "credit_raw"} \subseteq DOMAIN req[r]
        /\ req[r].pc = "raised"

\* C9: two calls with the same intent computed the same policy decision
\* (allowed fields per source and redacted-field list), whatever their
\* token and parameters and whatever happened before them.
C9_PolicyDeterministic ==
    \A r1 \in Started : \A r2 \in Started :
        req[r1].intent = req[r2].intent =>
            /\ req[r1].allowed_fields = req[r2].allowed_fields
            /\ req[r1].redacted_fields = req[r2].redacted_fields

\* two calls with one intent and different tokens or parameters, the second
\* made after the first was audited
C9_Witness ==
    \E r1 \in Started : \E r2 \in Started :
        /\ r1 < r2
        /\ req[r1].pc = "returned"
        /\ req[r1].intent = req[r2].intent
        /\ \/ req[r1].agent_token # req[r2].agent_token
           \/ req[r1].parameters # req[r2].parameters

\* the raw payloads of q1 and q2 agree on every allow-listed field
AgreeOnAllowed(q1, q2) ==
    \A S \in Sources : \A f \in FieldSet(q1.allowed_fields[S]) :
        RawOf(q1)[S][f] = RawOf(q2)[S][f]

\* C10: two returned requests whose raw payloads differ only in fields that
\* are not allow-listed got identical payloads, and no field named in
\* constraints.redacted_fields is in any source's section of a payload.
C10_RawNeverCrosses ==
    /\ \A r1 \in Returned : \A r2 \in Returned :
          AgreeOnAllowed(req[r1], req[r2]) =>
              req[r1].envelope.payload = req[r2].envelope.payload
    /\ \A r \in Returned : \A S \in DOMAIN req[r].envelope.payload :
          FieldSet(req[r].envelope.constraints.redacted_fields)
              \cap DOMAIN req[r].envelope.payload[S] = {}

\* two returned requests whose raw payloads differ (in customer_id, which is
\* not allow-listed) and carry the redacted fields
C10_Witness ==
    \E r1 \in Returned : \E r2 \in Returned :
        /\ RawOf(req[r1]) # RawOf(req[r2])
        /\ AgreeOnAllowed(req[r1], req[r2])
        /\ "ssn" \in DOMAIN req[r1].customer_raw

\* the sources whose raw payload request q holds: their fetch completed
FetchesCompleted(q) == { S \in Sources : (S \o "_raw") \in DOMAIN q }

\* the sources whose backend call request q has made: those that completed
\* and the one it is (or was, when the call raised or hung) suspended in
FetchesStarted(q) ==
    FetchesCompleted(q)
        \cup (IF InFlight(q) THEN {q.pc} ELSE {})
        \cup (IF Blocked(q) THEN {q.blocked_on} ELSE {})
        \cup (IF "failed_source" \in DOMAIN q THEN {q.failed_source} ELSE {})

\* C11: the five fetches of a request run concurrently: once any fetch of
\* the request has completed every one of the five has been started; and
\* an envelope is built only after all five have completed.
C11_FetchesIssuedConcurrently ==
    \A r \in Started :
        /\ FetchesCompleted(req[r]) # {} => FetchesStarted(req[r]) = Sources
        /\ "envelope" \in DOMAIN req[r] => FetchesCompleted(req[r]) = Sources

\* a step of request r
RequestStep(r) ==
    \/ CustomerReturns(r) \/ AccountReturns(r) \/ CreditReturns(r)
    \/ PropertyReturns(r) \/ PolicyReturns(r)
    \/ FetchRaises(r) \/ FetchHangs(r) \/ AuditAppendRaises(r)

\* C12: a fetch that never completes does not block its request for good:
\* every request that has neither returned nor raised still has a step to
\* take (for a request whose fetch hangs, the failure with
\* ContextTimeoutError), and a request that failed with ContextTimeoutError
\* returned no envelope.
C12_HangingFetchTimesOut ==
    \A r \in Started :
        /\ ~Finished(req[r]) => ENABLED RequestStep(r)
        /\ (req[r].pc = "raised" /\ req[r].error = "ContextTimeoutError")
              => "envelope" \notin DOMAIN req[r]

\* the slots whose request returns its envelope in this step
Returning == { r \in RequestSlots :
                  req[r].pc # "returned" /\ req'[r].pc = "returned" }

\* record is an intact audit record of request q: it has the seven keys of
\* the dict of line 718 and the values of that request
IntactRecordOf(record, q) ==
    /\ DOMAIN record = {"request_id", "agent", "intent", "sources_accessed",
                        "policy_decision", "data_filtered", "redacted_fields"}
    /\ record.request_id = q.request_id
    /\ record.agent = q.agent_token
    /\ record.intent = q.intent
    /\ record.sources_accessed =
           [i \in DOMAIN q.envelope.provenance.sources |->
               q.envelope.provenance.sources[i].service]
    /\ record.policy_decision = "ALLOW"
    /\ record.data_filtered = TRUE
    /\ record.redacted_fields = q.redacted_fields

\* C14: with request_context calls interleaving at their await points,
\* every step in which a request completes puts one intact record of that
\* request at the end of audit_log and leaves the earlier records as they
\* were; no other step changes audit_log; so audit_log holds one record
\* per completed request, in the order in which they reached the append.
C14_ConcurrentAuditAppends ==
    [][ /\ \A r \in Returning :
              /\ Len(audit_log') = Len(audit_log) + 1
              /\ SubSeq(audit_log', 1, Len(audit_log)) = audit_log
              /\ IntactRecordOf(audit_log'[Len(audit_log')], req'[r])
        /\ Returning = {} => audit_log' = audit_log
        /\ Len(audit_log') =
              Cardinality({ r \in RequestSlots : req'[r].pc = "returned" })
      ]_vars

\* two requests with different request ids ran interleaved (the call_log
\* has a call of the second between two calls of the first), both
\* completed, and the one that started second was audited first
C14_Witness ==
    /\ \A r \in {1, 2} : req[r].pc = "returned"
    /\ req[1].request_id # req[2].request_id
    /\ \E i, j, k \in DOMAIN call_log :
          /\ i < j /\ j < k
          /\ call_log[i].caller = caller_name(req[1].request_id)
          /\ call_log[j].caller = caller_name(req[2].request_id)
          /\ call_log[k].caller = caller_name(req[1].request_id)
    /\ Len(audit_log) = 2
    /\ audit_log[1].request_id = req[2].request_id
    /\ audit_log[2].request_id = req[1].request_id
\* run_comparison has both results: the traditional call returned and the
\* request of the MCP agent returned its envelope
ComparisonDone == trad.pc = "returned" /\ req[1].pc = "returned"

\* run_comparison's mcp_calls, the copy of call_log it takes then
mcp_calls == call_log

\* C21: for one applicant and property the two agents cause the same five
\* backend calls in the same order: entry by entry the two call logs have
\* the same keys and the same values (service, operation, data_size, ...)
\* except for the caller, which is "TraditionalAgent:<agent_id>" in the
\* traditional run and "MCPProxy:<request_id>" in the MCP run.
C21_SameBackendCalls ==
    ComparisonDone =>
        /\ Len(traditional_calls) = 5
        /\ Len(mcp_calls) = 5
        /\ \A i \in 1..5 :
              /\ DOMAIN traditional_calls[i] = DOMAIN mcp_calls[i]
              /\ \A k \in DOMAIN traditional_calls[i] \ {"caller"} :
                     traditional_calls[i][k] = mcp_calls[i][k]
              /\ traditional_calls[i].caller
                     = "TraditionalAgent:" \o trad.agent_id
              /\ mcp_calls[i].caller = "MCPProxy:" \o req[1].request_id

\* both runs are done for an applicant and a property other than those of
\* the demo, and the logs name them in the operations
C21_Witness ==
    /\ ComparisonDone
    /\ trad.applicant_id = "CUST-99999"
    /\ trad.property_id = "PROP-1"
    /\ mcp_calls[1].operation = "GET /customers/CUST-99999"
    /\ traditional_calls[4].operation = "GET /properties/PROP-1/valuation"

\* C22: in the provenance of every returned envelope original_size_kb is
\* greater than or equal to filtered_size_kb.
C22_OriginalSizeAtLeastFiltered ==
    \A r \in Returned :
        req[r].envelope.provenance.original_size_kb
            >= req[r].envelope.provenance.filtered_size_kb

\* two envelopes were returned, for different intents, and the sizes of
\* the first differ
C22_Witness ==
    /\ Returned = {1, 2}
    /\ req[1].intent # req[2].intent
    /\ req[1].envelope.provenance.original_size_kb
           > req[1].envelope.provenance.filtered_size_kb

\* the decision run_comparison gets from the MCP agent
mcp_result == McpAssessResult(req[1].envelope, trad.requested_amount)

\* C26: for every amount, applicant and property the traditional agent,
\* deciding on the raw data, and the MCP agent, deciding on the filtered
\* payload, return the same decision, APPROVED or DENIED.
C26_SameDecision ==
    ComparisonDone =>
        /\ trad.result.decision = mcp_result.decision
        /\ mcp_result.decision \in {"APPROVED", "DENIED"}

\* both agents decided on the largest amount that is approved; the value
\* the decision turns on, estimated_value, reached the MCP agent through
\* the filter
C26_Witness ==
    /\ ComparisonDone
    /\ trad.requested_amount = 280000
    /\ trad.result.decision = "APPROVED"
    /\ mcp_result.decision = "APPROVED"
    /\ req[1].envelope.payload.property.estimated_value
           = trad.property_data.estimated_value


\* the requests whose customer call was answered with the four-field record
\* and whose other four calls were answered too
ScenarioRequests ==
    { r \in RequestSlots :
          /\ {"customer_raw", "policy_raw"} \subseteq DOMAIN req[r]
          /\ req[r].intent = "loan_assessment"
          /\ DOMAIN req[r].customer_raw
                 = {"name", "ssn", "annual_income", "internal_notes"} }

\* C23: a loan_assessment request whose customer source returned
\* {name, ssn, annual_income, internal_notes} ends with an envelope whose
\* customer payload is exactly {name, annual_income} and whose
\* redacted_fields include ssn and internal_notes.
C23_ScenarioCustomerFiltered ==
    \A r \in ScenarioRequests :
        Finished(req[r]) =>
            /\ req[r].pc = "returned"
            /\ DOMAIN req[r].envelope.payload.customer
                   = {"name", "annual_income"}
            /\ {"ssn", "internal_notes"} \subseteq
                   FieldSet(req[r].envelope.constraints.redacted_fields)

(***************************************************************************)
(* Properties of the audit logger.                                         *)
(***************************************************************************)
\* C8: for every stored event and every one of its fields, once the field's
\* value has been changed verify_integrity() returns False and the event it
\* reports is that one.
C8_AnyFieldTamperDetected ==
    \A i \in DOMAIN events : \A f \in AuditEventFields :
        <<i, f>> \in Tampered =>
            /\ ~verify_integrity(events)
            /\ FirstIntegrityViolation(events) = i

\* entry d of the log file is event e as persisted: the same fields with
\* the same values, the action as its value
PersistedEntryOf(d, e) ==
    /\ DOMAIN d = AuditEventFields
    /\ d.action = ActionValue(e.action)
    /\ \A f \in AuditEventFields \ {"action"} : d[f] = e[f]

\* the event list and the log file hold exactly the sequence evs
LogHolds(evs) ==
    /\ events = evs
    /\ log_file.exists <=> evs # <<>>
    /\ log_file.exists =>
          /\ Len(log_file.data) = Len(evs)
          /\ \A i \in DOMAIN evs : PersistedEntryOf(log_file.data[i], evs[i])

\* C13: with one AuditLogger and nothing but log_event touching its list,
\* the event list and the log file always hold exactly the events logged
\* so far, in the order they were logged; and every step that logs only
\* adds entries at the end, leaving the earlier entries of the list and of
\* the file unchanged and in place.
C13_LogIsExactEventSequence ==
    /\ [] LogHolds(created)
    /\ [][ /\ Len(events') >= Len(events)
           /\ SubSeq(events', 1, Len(events)) = events
           /\ log_file.exists =>
                 /\ log_file'.exists
                 /\ SubSeq(log_file'.data, 1, Len(log_file.data))
                        = log_file.data ]_vars

\* four events logged by two calls that each logged an access event and
\* a file event
C13_Witness ==
    /\ Len(events) = 4
    /\ events[1].action = "REPO_ACCESS" /\ events[2].action = "FILE_CREATE"
    /\ events[3].action = "REPO_ACCESS" /\ events[4].action = "FILE_UPDATE"
    /\ Len(log_file.data) = 4

\* agent_id is in the authorized list of repo
InAuthorizedList(agent_id, repo) ==
    /\ repo \in DOMAIN authorized_repos
    /\ agent_id \in FieldSet(authorized_repos[repo])

\* this step is a create_file or update_file call; result' describes it
FileCall ==
    /\ result'.n = result.n + 1
    /\ result'.op \in {"create_file", "update_file"}

\* C15: a create_file or update_file call by an agent that is not in the
\* repository's authorized list raises PermissionError, leaves every file
\* of the workspace as it was, and logs exactly one event: a REPO_ACCESS
\* event of that agent and repository with success = False.
C15_UnauthorizedRepoDenied ==
    [][ (FileCall /\ ~InAuthorizedList(result'.agent_id, result'.repo)) =>
          /\ result'.outcome = "PermissionError"
          /\ workspace' = workspace
          /\ Len(events') = Len(events) + 1
          /\ SubSeq(events', 1, Len(events)) = events
          /\ LET e == events'[Len(events')]
             IN  /\ e.action = "REPO_ACCESS"
                 /\ e.success = FALSE
                 /\ e.agent_id = result'.agent_id
                 /\ e.repo = result'.repo ]_vars

\* an agent that may update files was refused the update of a file that
\* exists, with another text, in a repository it is not authorized for
C15_Witness ==
    /\ result.n > 0
    /\ result.op = "update_file"
    /\ ~InAuthorizedList(result.agent_id, result.repo)
    /\ "FILE_UPDATE" \in FieldSet(allowed_actions[result.agent_id])
    /\ <<result.repo, result.file_path>> \in DOMAIN workspace
    /\ workspace[<<result.repo, result.file_path>>] # result.content
    /\ result.outcome = "PermissionError"

\* the path ends in .key, .pem, secrets.yaml or .env
RestrictedPath(file_path) ==
    \E suffix \in {".key", ".pem", "secrets.yaml", ".env"} :
        EndsWith(file_path, suffix)

\* C16: a create_file call on a path ending in .key, .pem, secrets.yaml or
\* .env raises PermissionError and leaves the workspace as it was, whoever
\* the agent and whatever the repository.
C16_RestrictedCreateDenied ==
    [][ (/\ FileCall
         /\ result'.op = "create_file"
         /\ RestrictedPath(result'.file_path)) =>
          /\ result'.outcome = "PermissionError"
          /\ workspace' = workspace ]_vars

\* an agent authorized for the repository and for FILE_CREATE was refused
\* the creation of server.key
C16_Witness ==
    /\ result.n > 0
    /\ result.op = "create_file"
    /\ result.file_path = "server.key"
    /\ InAuthorizedList(result.agent_id, result.repo)
    /\ "FILE_CREATE" \in FieldSet(allowed_actions[result.agent_id])
    /\ result.outcome = "PermissionError"

\* the action type of an operation
ActionOf(op) == IF op = "create_file" THEN "FILE_CREATE" ELSE "FILE_UPDATE"

\* the allowed_actions of an agent, none for an agent the policy does not
\* list
AllowedActionsOf(agent_id) ==
    IF agent_id \in DOMAIN allowed_actions
    THEN FieldSet(allowed_actions[agent_id]) ELSE {}

\* C17: a create_file or update_file call by an agent whose allowed_actions
\* lack the action type of the operation raises PermissionError and leaves
\* the workspace as it was, also when the agent is authorized for the
\* repository.
C17_ActionNotAllowedDenied ==
    [][ (/\ FileCall
         /\ ActionOf(result'.op) \notin AllowedActionsOf(result'.agent_id)) =>
          /\ result'.outcome = "PermissionError"
          /\ workspace' = workspace ]_vars

\* an agent authorized for the repository but not for FILE_UPDATE was
\* refused the update of a file that exists there
C17_Witness ==
    /\ result.n > 0
    /\ result.op = "update_file"
    /\ InAuthorizedList(result.agent_id, result.repo)
    /\ "FILE_UPDATE" \notin AllowedActionsOf(result.agent_id)
    /\ <<result.repo, result.file_path>> \in DOMAIN workspace
    /\ workspace[<<result.repo, result.file_path>>] # result.content
    /\ result.outcome = "PermissionError"

\* the call of this step is one the policy permits: the agent is authorized
\* for the repository and for the action, and it creates a file whose path
\* is not restricted or updates a file that exists
PermittedFileCall ==
    /\ FileCall
    /\ InAuthorizedList(result'.agent_id, result'.repo)
    /\ ActionOf(result'.op) \in AllowedActionsOf(result'.agent_id)
    /\ \/ result'.op = "create_file" /\ ~RestrictedPath(result'.file_path)
       \/ /\ result'.op = "update_file"
          /\ <<result'.repo, result'.file_path>> \in DOMAIN workspace

\* the call of this step returned a commit id, left the file with the
\* given content and the other files as they were, and added two events to
\* the audit log: a successful REPO_ACCESS event, then a successful
\* FILE_CREATE or FILE_UPDATE event, both of that agent and repository, the
\* second for that file
CallSucceeded ==
    LET file == <<result'.repo, result'.file_path>>
        e1 == events'[Len(events) + 1]
        e2 == events'[Len(events) + 2]
    IN  /\ result'.outcome = "returned"
        /\ result'.value \in { commit_id(n) : n \in 1..MaxClock }
        /\ DOMAIN workspace' = DOMAIN workspace \cup {file}
        /\ workspace'[file] = result'.content
        /\ \A g \in DOMAIN workspace \ {file} : workspace'[g] = workspace[g]
        /\ Len(events') = Len(events) + 2
        /\ SubSeq(events', 1, Len(events)) = events
        /\ e1.action = "REPO_ACCESS" /\ e1.success = TRUE
        /\ e1.agent_id = result'.agent_id /\ e1.repo = result'.repo
        /\ e2.action = ActionOf(result'.op) /\ e2.success = TRUE
        /\ e2.agent_id = result'.agent_id /\ e2.repo = result'.repo
        /\ e2.resource = result'.file_path

\* C18 as stated: every permitted create_file or update_file call
\* succeeds, whatever the workspace holds at the path.
C18_PermittedCallSucceeds ==
    [][PermittedFileCall => CallSucceeded]_vars

\* the path of a create_file call is one the file system can write: no
\* directory on the way to it is an existing file, and the path itself is
\* not an existing directory
WritablePath ==
    /\ \A a \in Ancestors(result'.file_path) :
           <<result'.repo, a>> \notin DOMAIN workspace
    /\ \A k \in DOMAIN workspace :
           ~(k[1] = result'.repo /\ result'.file_path \in Ancestors(k[2]))

\* C18, amended: a permitted update_file call of an existing file succeeds,
\* and so does a permitted create_file call whose path the file system can
\* write: it returns a commit id, leaves the file with the given content and
\* adds a successful REPO_ACCESS event and then a successful FILE_CREATE or
\* FILE_UPDATE event.  A permitted create_file call on any other path
\* raises the file system's error, changes no file, and adds a successful
\* REPO_ACCESS event and then a failed FILE_CREATE event.
C18_WritableCallSucceeds ==
    [][ PermittedFileCall =>
          IF result'.op = "update_file" \/ WritablePath
          THEN CallSucceeded
          ELSE /\ result'.outcome \in {"FileExistsError", "NotADirectoryError",
                                       "IsADirectoryError"}
               /\ workspace' = workspace
               /\ Len(events') = Len(events) + 2
               /\ SubSeq(events', 1, Len(events)) = events
               /\ events'[Len(events) + 1].action = "REPO_ACCESS"
               /\ events'[Len(events) + 1].success = TRUE
               /\ events'[Len(events) + 2].action = "FILE_CREATE"
               /\ events'[Len(events) + 2].success = FALSE
               /\ events'[Len(events) + 2].resource = result'.file_path ]_vars

\* a file was created by one agent and then updated, with another text, by
\* another agent
C18_Witness ==
    /\ result.n = 2
    /\ result.op = "update_file"
    /\ result.outcome = "returned"
    /\ Len(events) = 4
    /\ events[2].action = "FILE_CREATE"
    /\ events[2].resource = result.file_path
    /\ events[2].agent_id # result.agent_id
    /\ events[2].details.content_hash # events[4].details.new_hash
    /\ workspace[<<result.repo, result.file_path>>] = result.content

\* C19: after any calls of verify_access, create_file and update_file by
\* any agents on the shared logger, granted, denied or failed,
\* verify_integrity() returns True as long as no stored event was modified.
C19_IntegrityHoldsUntampered ==
    Tampered = {} => verify_integrity(events)

\* the log holds the events of a successful create_file call and a failed
\* event of a call that was denied or failed
C19_Witness ==
    /\ Tampered = {}
    /\ \E i \in DOMAIN events :
          events[i].action = "FILE_CREATE" /\ events[i].success
    /\ \E j \in DOMAIN events : ~events[j].success

\* C20: an AuditLogger constructed on a log path that holds persisted
\* events is constructed with those events: written back to a file, its
\* event list gives the file it was loaded from, entry by entry and field
\* by field.
C20_ReloadRestoresEvents ==
    [][ (loaded' # loaded /\ log_file.exists) =>
          /\ loaded'.status = "constructed"
          /\ PersistedLog(loaded'.events) = log_file ]_vars

\* C24: with two AuditLogger instances on one log path, the log file holds
\* every event logged through either instance, in the order they were
\* logged.
C24_FileHoldsEveryEvent ==
    log_file.exists => log_file = PersistedLog(created)

\* the files of a workspace whose path the policy marks restricted, with
\* their contents
RestrictedFiles(files) ==
    [k \in { k \in DOMAIN files : is_file_restricted(k[2]) } |-> files[k]]

\* C25: whatever the workspace held at the start and whatever the agents
\* call, no step writes to a restricted path: the restricted files and
\* their contents stay as they were.
C25_RestrictedFilesKeepContents ==
    [][RestrictedFiles(workspace') = RestrictedFiles(workspace)]_vars

====
